---- MODULE Spec2Model ----
(***************************************************************************)
(* Tello dashboard: the telemetry channel (useWebSocket) and the command   *)
(* dispatcher (useDroneCommands) of tello-frontend/src/types/index.ts.     *)
(*                                                                         *)
(* Text on the wire is a sequence of lexical tokens; JSON.parse and        *)
(* JSON.stringify are computed over those tokens.  A JavaScript value is a *)
(* tagged record; an object keeps its members in insertion order.          *)
(***************************************************************************)
EXTENDS Integers, Sequences, FiniteSets, TLC

\* ------------------------------------------------------------------ bounds
MaxSockets == 2

MaxCalls == 2

MaxClicks == 3

\* ------------------------------------------------------- program constants
MoveStep == 30

RotateStep == 90

InitialSpeed == 50

\* ------------------------------------------------------- JavaScript values
JNull == [tag |-> "null"]

JUndefined == [tag |-> "undefined"]

JStr(s) == [tag |-> "string", s |-> s]

JNum(n) == [tag |-> "number", n |-> n]

JBool(b) == [tag |-> "boolean", b |-> b]

JObj(members) == [tag |-> "object", m |-> members]

Member(k, v) == [k |-> k, v |-> v]

\* v.k : a property read.  Reading a property of null or undefined throws a
\* TypeError; a primitive or an object without the key yields undefined.
CanRead(v) == v.tag \notin {"null", "undefined"}

Get(v, k) ==
  IF v.tag = "object" /\ \E i \in 1..Len(v.m) : v.m[i].k = k
  THEN LET i == CHOOSE j \in 1..Len(v.m) : v.m[j].k = k IN v.m[i].v
  ELSE JUndefined

\* obj[k] = v on an ordered member list: an existing key keeps its position.
SetMember(ms, k, v) ==
  IF \E i \in 1..Len(ms) : ms[i].k = k
  THEN [i \in 1..Len(ms) |-> IF ms[i].k = k THEN Member(k, v) ELSE ms[i]]
  ELSE Append(ms, Member(k, v))

\* ------------------------------------------------------------------ tokens
LB == [t |-> "{"]

RB == [t |-> "}"]

COLON == [t |-> ":"]

COMMA == [t |-> ","]

NUL == [t |-> "null"]

TRU == [t |-> "true"]

FAL == [t |-> "false"]

S(s) == [t |-> "str", s |-> s]

N(n) == [t |-> "num", n |-> n]

\* -------------------------------------------------------------- JSON.parse
ParseFail(i) == [ok |-> FALSE, val |-> JUndefined, pos |-> i]

ParseOk(v, i) == [ok |-> TRUE, val |-> v, pos |-> i]

RECURSIVE ParseValue(_, _)
RECURSIVE ParseMembers(_, _, _)
ParseValue(text, i) ==
  IF i > Len(text) THEN ParseFail(i)
  ELSE LET tk == text[i] IN
    CASE tk.t = "null" -> ParseOk(JNull, i + 1)
      [] tk.t = "true" -> ParseOk(JBool(TRUE), i + 1)
      [] tk.t = "false" -> ParseOk(JBool(FALSE), i + 1)
      [] tk.t = "str" -> ParseOk(JStr(tk.s), i + 1)
      [] tk.t = "num" -> ParseOk(JNum(tk.n), i + 1)
      [] tk.t = "{" ->
           IF i + 1 <= Len(text) /\ text[i + 1].t = "}"
           THEN ParseOk(JObj(<<>>), i + 2)
           ELSE ParseMembers(text, i + 1, <<>>)
      [] OTHER -> ParseFail(i)

ParseMembers(text, i, acc) ==
  IF i + 1 > Len(text) THEN ParseFail(i)
  ELSE IF text[i].t # "str" \/ text[i + 1].t # ":" THEN ParseFail(i)
  ELSE LET r == ParseValue(text, i + 2) IN
    IF ~r.ok THEN r
    ELSE IF r.pos > Len(text) THEN ParseFail(r.pos)
    ELSE LET acc2 == SetMember(acc, text[i].s, r.val) IN
      CASE text[r.pos].t = "}" -> ParseOk(JObj(acc2), r.pos + 1)
        [] text[r.pos].t = "," -> ParseMembers(text, r.pos + 1, acc2)
        [] OTHER -> ParseFail(r.pos)

\* JSON.parse(text): ok = FALSE stands for the SyntaxError it throws.
JSONparse(text) ==
  LET r == ParseValue(text, 1) IN
  IF r.ok /\ r.pos = Len(text) + 1 THEN [ok |-> TRUE, val |-> r.val]
  ELSE [ok |-> FALSE, val |-> JUndefined]

\* ---------------------------------------------------------- JSON.stringify
RECURSIVE Stringify(_)
RECURSIVE StringifyMembers(_, _)
Stringify(v) ==
  CASE v.tag = "null" -> <<NUL>>
    [] v.tag = "boolean" -> IF v.b THEN <<TRU>> ELSE <<FAL>>
    [] v.tag = "string" -> <<S(v.s)>>
    [] v.tag = "number" -> <<N(v.n)>>
    [] v.tag = "object" -> <<LB>> \o StringifyMembers(v.m, TRUE) \o <<RB>>
    [] OTHER -> <<>>

\* members whose value is undefined are left out
StringifyMembers(ms, first) ==
  IF ms = <<>> THEN <<>>
  ELSE LET h == Head(ms) IN
    IF h.v.tag = "undefined" THEN StringifyMembers(Tail(ms), first)
    ELSE (IF first THEN <<>> ELSE <<COMMA>>)
         \o <<S(h.k), COLON>> \o Stringify(h.v)
         \o StringifyMembers(Tail(ms), FALSE)

JSONstringify(v) == Stringify(v)

\* ------------------------------------------------- inbound message inputs
EnvelopeText(type, dataText) ==
  <<LB, S("type"), COLON, S(type), COMMA, S("data"), COLON>> \o dataText \o <<RB>>

\* The texts the backend may put on the socket.  kind and data describe the
\* message as sent: kind "other" is a well-formed envelope with an
\* unrecognised tag, kind "malformed" is anything that is not an envelope
\* with a type and (for a recognised tag) a data payload.
Messages ==
  << [text |-> EnvelopeText("state_update", <<LB, S("battery"), COLON, N(1), RB>>),
      kind |-> "state_update",
      data |-> JObj(<<Member("battery", JNum(1))>>)],
     [text |-> EnvelopeText("state_update", <<LB, S("height"), COLON, N(2), RB>>),
      kind |-> "state_update",
      data |-> JObj(<<Member("height", JNum(2))>>)],
     [text |-> EnvelopeText("video_frame", <<LB, S("frame"), COLON, S("f1"), RB>>),
      kind |-> "video_frame",
      data |-> JStr("f1")],
     [text |-> EnvelopeText("video_frame", <<LB, S("frame"), COLON, S("f2"), RB>>),
      kind |-> "video_frame",
      data |-> JStr("f2")],
     [text |-> EnvelopeText("ping", <<LB, S("battery"), COLON, N(9), RB>>),
      kind |-> "other",
      data |-> JUndefined],
     [text |-> <<LB, S("type"), COLON>>,
      kind |-> "malformed",
      data |-> JUndefined],
     [text |-> <<NUL>>,
      kind |-> "malformed",
      data |-> JUndefined],
     [text |-> <<LB, S("data"), COLON, LB, S("battery"), COLON, N(9), RB, RB>>,
      kind |-> "malformed",
      data |-> JUndefined],
     [text |-> <<LB, S("type"), COLON, S("state_update"), RB>>,
      kind |-> "malformed",
      data |-> JUndefined],
     [text |-> <<LB, S("type"), COLON, S("video_frame"), RB>>,
      kind |-> "malformed",
      data |-> JUndefined] >>

MessageIds == 1..Len(Messages)

\* ------------------------------------------------------------------- state
VARIABLES
  sock,          \* readyState of every WebSocket the hook has created
  ws,            \* useState ws: the value last passed to setWs (0 = null)
  wsR,           \* ws as committed by the last render: what the disconnect
                 \* callback and the effect cleanup have closed over
  isConnected,   \* useState isConnected
  droneState,    \* useState droneState
  videoFrame,    \* useState videoFrame
  mounted,       \* the component using the hook is mounted
  lastEvent,     \* observation: the handler or call that ran last
  lastThrew,     \* observation: that handler ended in an uncaught exception
  lastSU,        \* observation: data of the latest well-formed state_update
  lastVF,        \* observation: frame of the latest well-formed video_frame
  malformedSeen, \* observation: a malformed message has been delivered
  disconnected,  \* observation: the open sockets an explicit disconnect()
                 \* closed
  calls,         \* the promises returned by the command operations, in
                 \* invocation order, each with the invocation it came from
  posts,         \* the requests handed to fetch, in issuance order, each
                 \* with the response it has received so far
  handlers,      \* DroneController: for every call, the handler awaiting it,
                 \* the ws its wsDisconnect closed over, the toast it raised
  panelConnected,\* the isConnected prop DroneControlPanel was last rendered
                 \* with
  panelSpeed,    \* DroneControlPanel useState speed
  isTracking     \* DroneControlPanel useState isTracking

chanVars == <<sock, ws, wsR, isConnected, droneState, videoFrame, mounted>>

obsVars == <<lastEvent, lastThrew, lastSU, lastVF, malformedSeen, disconnected>>

dispVars == <<calls, posts>>

ctlVars == <<handlers, panelConnected, panelSpeed, isTracking>>

vars == <<chanVars, obsVars, dispVars, ctlVars>>

SocketIds == 1..MaxSockets

Live == {"CONNECTING", "OPEN"}

Event(kind, s, m) == [kind |-> kind, sock |-> s, msg |-> m]

\* -------------------------------------------------------------- onmessage
Handled(ds, vf) == [droneState |-> ds, videoFrame |-> vf, threw |-> FALSE]

Thrown(ds, vf) == [droneState |-> ds, videoFrame |-> vf, threw |-> TRUE]

\* {...ds, ...data}: the members of data laid over those of ds.
RECURSIVE MergeMembers(_, _)
MergeMembers(base, over) ==
  IF over = <<>> THEN base
  ELSE MergeMembers(SetMember(base, Head(over).k, Head(over).v), Tail(over))

\* onmessage with a field-level merge of state_update payloads.
onmessage_merging(text, ds, vf) ==
  LET parsed == JSONparse(text) IN
  IF ~parsed.ok THEN Thrown(ds, vf)
  ELSE LET data == parsed.val IN
    IF ~CanRead(data) THEN Thrown(ds, vf)
    ELSE IF Get(data, "type") = JStr("state_update")
      THEN LET d == Get(data, "data") IN
           IF ds.tag = "object" /\ d.tag = "object"
           THEN Handled(JObj(MergeMembers(ds.m, d.m)), vf)
           ELSE Handled(d, vf)
    ELSE IF Get(data, "type") = JStr("video_frame")
      THEN IF ~CanRead(Get(data, "data")) THEN Thrown(ds, vf)
           ELSE Handled(ds, Get(Get(data, "data"), "frame"))
    ELSE Handled(ds, vf)

\* onmessage that keeps a frame it already has.
onmessage_keepingFrame(text, ds, vf) ==
  LET parsed == JSONparse(text) IN
  IF ~parsed.ok THEN Thrown(ds, vf)
  ELSE LET data == parsed.val IN
    IF ~CanRead(data) THEN Thrown(ds, vf)
    ELSE IF Get(data, "type") = JStr("state_update")
      THEN Handled(Get(data, "data"), vf)
    ELSE IF Get(data, "type") = JStr("video_frame")
      THEN IF ~CanRead(Get(data, "data")) THEN Thrown(ds, vf)
           ELSE IF vf # JNull THEN Handled(ds, vf)
           ELSE Handled(ds, Get(Get(data, "data"), "frame"))
    ELSE Handled(ds, vf)

\* onmessage whose last branch is a plain else: every tag other than
\* state_update is treated as a video frame.
onmessage_plainElse(text, ds, vf) ==
  LET parsed == JSONparse(text) IN
  IF ~parsed.ok THEN Thrown(ds, vf)
  ELSE LET data == parsed.val IN
    IF ~CanRead(data) THEN Thrown(ds, vf)
    ELSE IF Get(data, "type") = JStr("state_update")
      THEN Handled(Get(data, "data"), vf)
    ELSE IF ~CanRead(Get(data, "data")) THEN Thrown(ds, vf)
    ELSE Handled(ds, Get(Get(data, "data"), "frame"))

\* websocket.onmessage applied to event.data = text with the current slots.
onmessage(text, ds, vf) ==
  LET parsed == JSONparse(text) IN
  IF ~parsed.ok THEN Thrown(ds, vf)
  ELSE LET data == parsed.val IN
    IF ~CanRead(data) THEN Thrown(ds, vf)
    ELSE IF Get(data, "type") = JStr("state_update")
      THEN Handled(Get(data, "data"), vf)
    ELSE IF Get(data, "type") = JStr("video_frame")
      THEN IF ~CanRead(Get(data, "data")) THEN Thrown(ds, vf)
           ELSE Handled(ds, Get(Get(data, "data"), "frame"))
    ELSE Handled(ds, vf)

\* ------------------------------------------------------------ the channel
\* WebSocket.close(): a connecting or open socket starts closing; on a
\* closing or closed socket the call does nothing.
close(sk, s) ==
  IF s # 0 /\ sk[s] \in Live THEN [sk EXCEPT ![s] = "CLOSING"] ELSE sk

Init ==
  /\ sock = [s \in SocketIds |-> "NONE"]
  /\ ws = 0
  /\ wsR = 0
  /\ isConnected = FALSE
  /\ droneState = JNull
  /\ videoFrame = JNull
  /\ mounted = TRUE
  /\ lastEvent = Event("init", 0, 0)
  /\ lastThrew = FALSE
  /\ lastSU = JNull
  /\ lastVF = JNull
  /\ malformedSeen = FALSE
  /\ disconnected = {}
  /\ calls = <<>>
  /\ posts = <<>>
  /\ handlers = <<>>
  /\ panelConnected = FALSE
  /\ panelSpeed = InitialSpeed
  /\ isTracking = FALSE

\* connect(): new WebSocket(...), handlers attached, setWs(websocket).
wsConnect ==
  /\ mounted
  /\ \E s \in SocketIds : sock[s] = "NONE"
  /\ LET s == CHOOSE n \in SocketIds :
                sock[n] = "NONE" /\ \A k \in SocketIds : sock[k] = "NONE" => n <= k
     IN /\ sock' = [sock EXCEPT ![s] = "CONNECTING"]
        /\ ws' = s
        /\ lastEvent' = Event("connect", s, 0)
  /\ lastThrew' = FALSE
  /\ UNCHANGED <<wsR, isConnected, droneState, videoFrame, mounted,
                 lastSU, lastVF, malformedSeen, disconnected, dispVars, ctlVars>>

\* disconnect(): if (ws) { ws.close(); setWs(null) } with the ws of the
\* render that created the callback.
wsDisconnect ==
  /\ mounted
  /\ sock' = close(sock, wsR)
  /\ ws' = IF wsR # 0 THEN 0 ELSE ws
  /\ lastEvent' = Event("disconnect", wsR, 0)
  /\ lastThrew' = FALSE
  /\ disconnected' = IF wsR # 0 /\ sock[wsR] = "OPEN"
                     THEN disconnected \cup {wsR} ELSE disconnected
  /\ UNCHANGED <<wsR, isConnected, droneState, videoFrame, mounted,
                 lastSU, lastVF, malformedSeen, dispVars, ctlVars>>

\* A re-render commits a changed ws: the cleanup of the previous effect runs
\* with the ws it closed over, then the callbacks and the effect see the new
\* value.
Render ==
  /\ mounted
  /\ ws # wsR
  /\ sock' = close(sock, wsR)
  /\ wsR' = ws
  /\ lastEvent' = Event("render", wsR, 0)
  /\ lastThrew' = FALSE
  /\ UNCHANGED <<ws, isConnected, droneState, videoFrame, mounted,
                 lastSU, lastVF, malformedSeen, disconnected, dispVars, ctlVars>>

\* Component teardown: the cleanup of the last committed effect runs.
Unmount ==
  /\ mounted
  /\ sock' = close(sock, wsR)
  /\ mounted' = FALSE
  /\ lastEvent' = Event("unmount", wsR, 0)
  /\ lastThrew' = FALSE
  /\ UNCHANGED <<ws, wsR, isConnected, droneState, videoFrame,
                 lastSU, lastVF, malformedSeen, disconnected, dispVars, ctlVars>>

\* The handshake of socket s completes: websocket.onopen.  After teardown
\* the state setters have no effect.
OnOpen(s) ==
  /\ sock[s] = "CONNECTING"
  /\ sock' = [sock EXCEPT ![s] = "OPEN"]
  /\ isConnected' = IF mounted THEN TRUE ELSE isConnected
  /\ lastEvent' = Event("open", s, 0)
  /\ lastThrew' = FALSE
  /\ UNCHANGED <<ws, wsR, droneState, videoFrame, mounted,
                 lastSU, lastVF, malformedSeen, disconnected, dispVars, ctlVars>>

\* Socket s reaches CLOSED (close() completed, the peer closed, or the
\* connection failed): websocket.onclose.
OnClose(s) ==
  /\ sock[s] \in {"CONNECTING", "OPEN", "CLOSING"}
  /\ sock' = [sock EXCEPT ![s] = "CLOSED"]
  /\ isConnected' = IF mounted THEN FALSE ELSE isConnected
  /\ lastEvent' = Event("close", s, 0)
  /\ lastThrew' = FALSE
  /\ UNCHANGED <<ws, wsR, droneState, videoFrame, mounted,
                 lastSU, lastVF, malformedSeen, disconnected, dispVars, ctlVars>>

\* Open socket s delivers Messages[m]: websocket.onmessage.
OnMessage(s, m) ==
  /\ mounted
  /\ sock[s] = "OPEN"
  /\ LET r == onmessage(Messages[m].text, droneState, videoFrame) IN
       /\ droneState' = r.droneState
       /\ videoFrame' = r.videoFrame
       /\ lastThrew' = r.threw
  /\ lastEvent' = Event("message", s, m)
  /\ lastSU' = IF Messages[m].kind = "state_update" THEN Messages[m].data ELSE lastSU
  /\ lastVF' = IF Messages[m].kind = "video_frame" THEN Messages[m].data ELSE lastVF
  /\ malformedSeen' = (malformedSeen \/ Messages[m].kind = "malformed")
  /\ UNCHANGED <<sock, ws, wsR, isConnected, mounted, disconnected, dispVars, ctlVars>>

NextChannel ==
  \/ wsConnect
  \/ wsDisconnect
  \/ Render
  \/ Unmount
  \/ \E s \in SocketIds : OnOpen(s)
  \/ \E s \in SocketIds : OnClose(s)
  \/ \E s \in SocketIds, m \in MessageIds : OnMessage(s, m)

SpecChannel == Init /\ [][NextChannel]_vars

\* ------------------------------------------------- the command dispatcher
\* The responses the backend may give.  Per the REST interface every
\* response carries a JSON body; parsed is that body as a value.
Responses ==
  { [ok |-> TRUE,
     body |-> <<LB, S("status"), COLON, S("ok"), RB>>,
     parsed |-> JObj(<<Member("status", JStr("ok"))>>)],
    [ok |-> FALSE,
     body |-> <<LB, S("detail"), COLON, S("rejected"), RB>>,
     parsed |-> JObj(<<Member("detail", JStr("rejected"))>>)] }

NoResponse == [ok |-> FALSE, body |-> <<>>, parsed |-> JUndefined]

MoveDirections == {"forward", "back"}

RotateDirections == {"clockwise"}

FlipDirections == {"forward"}

Speeds == {75, 10}

\* fetchWithBody that coalesces a request with an identical one in flight.
fetchWithBody_coalescing(ps, c, endpoint, body) ==
  IF \E i \in 1..Len(ps) :
       /\ ps[i].state = "inflight"
       /\ ps[i].endpoint = endpoint
       /\ ps[i].body = JSONstringify(body)
  THEN ps
  ELSE Append(ps, [call |-> c,
                   method |-> "POST",
                   endpoint |-> endpoint,
                   body |-> JSONstringify(body),
                   state |-> "inflight",
                   resp |-> NoResponse])

\* fetch(`${API_BASE}${endpoint}`, {method: 'POST', headers, body:
\* JSON.stringify(body)}): one request handed to the network for call c.
fetchWithBody(ps, c, endpoint, body) ==
  Append(ps, [call |-> c,
              method |-> "POST",
              endpoint |-> endpoint,
              body |-> JSONstringify(body),
              state |-> "inflight",
              resp |-> NoResponse])

\* settle without the response.ok test.
settle_ignoringStatus(resp) ==
  LET parsed == JSONparse(resp.body) IN
  IF parsed.ok THEN [status |-> "resolved", value |-> parsed.val]
  ELSE [status |-> "rejected", value |-> JStr("SyntaxError")]

\* The rest of fetchWithBody once the response is there: throw on
\* !response.ok, otherwise the promise of response.json().
settle(resp) ==
  IF ~resp.ok
  THEN [status |-> "rejected", value |-> JStr("Command failed")]
  ELSE LET parsed == JSONparse(resp.body) IN
    IF parsed.ok THEN [status |-> "resolved", value |-> parsed.val]
    ELSE [status |-> "rejected", value |-> JStr("SyntaxError")]

\* The endpoint and body each operation of useDroneCommands passes to
\* fetchWithBody; an operation without parameters uses the default body {}.
request(op, args) ==
  CASE op = "connect" -> [endpoint |-> "/connect", body |-> JObj(<<>>)]
    [] op = "disconnect" -> [endpoint |-> "/disconnect", body |-> JObj(<<>>)]
    [] op = "takeoff" -> [endpoint |-> "/takeoff", body |-> JObj(<<>>)]
    [] op = "land" -> [endpoint |-> "/land", body |-> JObj(<<>>)]
    [] op = "move" ->
         [endpoint |-> "/move",
          body |-> JObj(<<Member("direction", args[1]), Member("distance", args[2])>>)]
    [] op = "rotate" ->
         [endpoint |-> "/rotate",
          body |-> JObj(<<Member("direction", args[1]), Member("degrees", args[2])>>)]
    [] op = "flip" ->
         [endpoint |-> "/flip", body |-> JObj(<<Member("direction", args[1])>>)]
    [] op = "setSpeed" ->
         [endpoint |-> "/speed", body |-> JObj(<<Member("speed", args[1])>>)]
    [] op = "toggleTracking" ->
         [endpoint |-> "/track_object", body |-> JObj(<<Member("enabled", args[1])>>)]

\* useMutation(fn).mutateAsync(variables): runs fn once and returns its
\* promise; the call is pending until the request settles.
mutateAsync(op, args) ==
  /\ Len(calls) < MaxCalls
  /\ LET c == Len(calls) + 1
         rq == request(op, args)
     IN /\ calls' = Append(calls, [op |-> op, args |-> args,
                                   status |-> "pending", value |-> JUndefined])
        /\ posts' = fetchWithBody(posts, c, rq.endpoint, rq.body)
  /\ UNCHANGED <<chanVars, obsVars, ctlVars>>

connect == mutateAsync("connect", <<>>)

disconnect == mutateAsync("disconnect", <<>>)

takeoff == mutateAsync("takeoff", <<>>)

land == mutateAsync("land", <<>>)

move(direction, distance) == mutateAsync("move", <<JStr(direction), JNum(distance)>>)

rotate(direction, degrees) == mutateAsync("rotate", <<JStr(direction), JNum(degrees)>>)

flip(direction) == mutateAsync("flip", <<JStr(direction)>>)

setSpeed(speed) == mutateAsync("setSpeed", <<JNum(speed)>>)

toggleTracking(enabled) == mutateAsync("toggleTracking", <<JBool(enabled)>>)

\* The backend answers request p: the awaiting fetchWithBody resumes.
Respond(p, resp) ==
  /\ posts[p].state = "inflight"
  /\ posts' = [posts EXCEPT ![p].state = "answered", ![p].resp = resp]
  /\ LET r == settle(resp) IN
       calls' = [calls EXCEPT ![posts[p].call].status = r.status,
                              ![posts[p].call].value = r.value]
  /\ UNCHANGED <<chanVars, obsVars, ctlVars>>

\* Request p never reaches the backend: fetch itself rejects.
FetchFails(p) ==
  /\ posts[p].state = "inflight"
  /\ posts' = [posts EXCEPT ![p].state = "failed"]
  /\ calls' = [calls EXCEPT ![posts[p].call].status = "rejected",
                            ![posts[p].call].value = JStr("TypeError")]
  /\ UNCHANGED <<chanVars, obsVars, ctlVars>>

NextDispatch ==
  \/ connect
  \/ disconnect
  \/ takeoff
  \/ land
  \/ \E d \in MoveDirections : move(d, MoveStep)
  \/ \E d \in RotateDirections : rotate(d, RotateStep)
  \/ \E d \in FlipDirections : flip(d)
  \/ \E v \in Speeds : setSpeed(v)
  \/ \E b \in BOOLEAN : toggleTracking(b)
  \/ \E p \in 1..Len(posts), resp \in Responses : Respond(p, resp)
  \/ \E p \in 1..Len(posts) : FetchFails(p)

SpecDispatch == Init /\ [][NextDispatch]_vars

\* ------------------------------------- DroneController / DroneControlPanel
PanelMoveDirections == {"forward"}

PanelRotateDirections == {"clockwise"}

PanelSpeeds == {10}

NoToast == [title |-> "none", description |-> "none", variant |-> "none"]

Toast(title, description, variant) ==
  [title |-> title, description |-> description, variant |-> variant]

Created == {s \in SocketIds : sock[s] # "NONE"}

PendingConnects ==
  {c \in 1..Len(calls) :
     handlers[c].handler = "handleConnect" /\ calls[c].status = "pending"}

\* a control that never disables itself
disabled_never(isConn) == FALSE

\* disabled={!isConnected} of the Land / Take Off button, the movement and
\* rotation buttons, the slider and the advanced controls.
disabled(isConn) == ~isConn

\* onClick={isConnected ? onDisconnect : onConnect}
connectionOnClick(isConn) == IF isConn THEN "handleDisconnect" ELSE "handleConnect"

\* onClick={isConnected ? onLand : onTakeoff}
flightOnClick(isConn) == IF isConn THEN "land" ELSE "takeoff"

\* a handler that goes on to the channel whatever the REST call returned
afterAwait_ignoringFailure(handler, status, message) ==
  CASE handler = "handleConnect" ->
         [channel |-> "wsConnect",
          toast |-> Toast("Connected", "Successfully connected to the drone.", "default")]
    [] handler = "handleDisconnect" ->
         [channel |-> "wsDisconnect",
          toast |-> Toast("Disconnected", "Successfully disconnected from the drone.", "default")]
    [] handler = "handleMove" /\ status = "rejected" ->
         [channel |-> "none", toast |-> Toast("Movement Failed", message, "destructive")]
    [] handler = "handleRotate" /\ status = "rejected" ->
         [channel |-> "none", toast |-> Toast("Rotation Failed", message, "destructive")]
    [] OTHER -> [channel |-> "none", toast |-> NoToast]

\* What a handler of DroneController does once the command it awaits has
\* settled: the statements after the await in the try block, or the catch
\* block with error.message.  "direct" is a mutateAsync handed to the panel
\* as it is (onTakeoff, onLand, onFlip, onSpeedChange, onToggleTracking):
\* nothing awaits it.
afterAwait(handler, status, message) ==
  CASE handler = "handleConnect" /\ status = "resolved" ->
         [channel |-> "wsConnect",
          toast |-> Toast("Connected", "Successfully connected to the drone.", "default")]
    [] handler = "handleConnect" /\ status = "rejected" ->
         [channel |-> "none", toast |-> Toast("Connection Failed", message, "destructive")]
    [] handler = "handleDisconnect" /\ status = "resolved" ->
         [channel |-> "wsDisconnect",
          toast |-> Toast("Disconnected", "Successfully disconnected from the drone.", "default")]
    [] handler = "handleDisconnect" /\ status = "rejected" ->
         [channel |-> "none", toast |-> Toast("Disconnection Failed", message, "destructive")]
    [] handler = "handleMove" /\ status = "rejected" ->
         [channel |-> "none", toast |-> Toast("Movement Failed", message, "destructive")]
    [] handler = "handleRotate" /\ status = "rejected" ->
         [channel |-> "none", toast |-> Toast("Rotation Failed", message, "destructive")]
    [] OTHER -> [channel |-> "none", toast |-> NoToast]

\* A click on an enabled control: the handler calls its command operation,
\* which issues the POST, and (when it is one of DroneController's async
\* handlers) awaits it.  The handler keeps the wsDisconnect of the render
\* it was created in.
dispatch(handler, op, args) ==
  /\ Len(calls) < MaxClicks
  /\ LET c == Len(calls) + 1
         rq == request(op, args)
     IN /\ calls' = Append(calls, [op |-> op, args |-> args,
                                   status |-> "pending", value |-> JUndefined])
        /\ posts' = fetchWithBody(posts, c, rq.endpoint, rq.body)
  /\ handlers' = Append(handlers, [handler |-> handler, ws |-> wsR, toast |-> NoToast])
  /\ lastEvent' = Event("click", 0, 0)
  /\ lastThrew' = FALSE
  /\ UNCHANGED <<chanVars, lastSU, lastVF, malformedSeen, disconnected, panelConnected>>

\* The Connect / Disconnect button (always enabled).
ClickConnection ==
  /\ LET h == connectionOnClick(panelConnected) IN
       IF h = "handleConnect"
       THEN /\ Cardinality(Created) + Cardinality(PendingConnects) < MaxSockets
            /\ dispatch("handleConnect", "connect", <<>>)
       ELSE dispatch("handleDisconnect", "disconnect", <<>>)
  /\ UNCHANGED <<panelSpeed, isTracking>>

\* The Land / Take Off button.
ClickFlight ==
  /\ ~disabled(panelConnected)
  /\ dispatch("direct", flightOnClick(panelConnected), <<>>)
  /\ UNCHANGED <<panelSpeed, isTracking>>

\* An arrow button: onMove(direction, 30) = handleMove.
ClickMove(direction) ==
  /\ ~disabled(panelConnected)
  /\ dispatch("handleMove", "move", <<JStr(direction), JNum(MoveStep)>>)
  /\ UNCHANGED <<panelSpeed, isTracking>>

\* A rotation button: onRotate(direction, 90) = handleRotate.
ClickRotate(direction) ==
  /\ ~disabled(panelConnected)
  /\ dispatch("handleRotate", "rotate", <<JStr(direction), JNum(RotateStep)>>)
  /\ UNCHANGED <<panelSpeed, isTracking>>

\* The Flip Forward button: onFlip('forward').
ClickFlip ==
  /\ ~disabled(panelConnected)
  /\ dispatch("direct", "flip", <<JStr("forward")>>)
  /\ UNCHANGED <<panelSpeed, isTracking>>

\* The slider: setSpeed(newSpeed); onSpeedChange(newSpeed).
handleSpeedChange(value) ==
  /\ ~disabled(panelConnected)
  /\ panelSpeed' = value
  /\ dispatch("direct", "setSpeed", <<JNum(value)>>)
  /\ UNCHANGED isTracking

\* The tracking button: setIsTracking(!isTracking);
\* onToggleTracking(!isTracking).
handleToggleTracking ==
  /\ ~disabled(panelConnected)
  /\ isTracking' = ~isTracking
  /\ dispatch("direct", "toggleTracking", <<JBool(~isTracking)>>)
  /\ UNCHANGED panelSpeed

\* Request p settles with outcome r and the handler awaiting it resumes.
Resume(p, r, postState, resp) ==
  /\ posts[p].state = "inflight"
  /\ LET c == posts[p].call
         k == afterAwait(handlers[c].handler, r.status, r.value.s)
         w == handlers[c].ws
     IN /\ posts' = [posts EXCEPT ![p].state = postState, ![p].resp = resp]
        /\ calls' = [calls EXCEPT ![c].status = r.status, ![c].value = r.value]
        /\ handlers' = [handlers EXCEPT ![c].toast = k.toast]
        /\ lastThrew' = (handlers[c].handler = "direct" /\ r.status = "rejected")
        /\ CASE k.channel = "wsConnect" ->
                  LET s == CHOOSE n \in SocketIds :
                             sock[n] = "NONE"
                             /\ \A j \in SocketIds : sock[j] = "NONE" => n <= j
                  IN /\ sock' = [sock EXCEPT ![s] = "CONNECTING"]
                     /\ ws' = s
                     /\ lastEvent' = Event("connect", s, 0)
                     /\ UNCHANGED disconnected
             [] k.channel = "wsDisconnect" ->
                  /\ sock' = close(sock, w)
                  /\ ws' = IF w # 0 THEN 0 ELSE ws
                  /\ lastEvent' = Event("disconnect", w, 0)
                  /\ disconnected' = IF w # 0 /\ sock[w] = "OPEN"
                                     THEN disconnected \cup {w} ELSE disconnected
             [] OTHER ->
                  /\ lastEvent' = Event("settled", 0, 0)
                  /\ UNCHANGED <<sock, ws, disconnected>>
  /\ UNCHANGED <<wsR, isConnected, droneState, videoFrame, mounted,
                 lastSU, lastVF, malformedSeen, panelConnected, panelSpeed, isTracking>>

\* The backend answers request p.
OnResponse(p, resp) == Resume(p, settle(resp), "answered", resp)

\* Request p never reaches the backend: fetch rejects with a TypeError.
OnFetchError(p) ==
  Resume(p, [status |-> "rejected", value |-> JStr("TypeError")], "failed", NoResponse)

\* DroneController re-renders: the panel gets the current isConnected, and
\* when ws changed the cleanup of the previous effect closes the socket it
\* closed over.
Commit ==
  /\ mounted
  /\ ws # wsR \/ isConnected # panelConnected
  /\ sock' = IF ws # wsR THEN close(sock, wsR) ELSE sock
  /\ wsR' = ws
  /\ panelConnected' = isConnected
  /\ lastEvent' = Event("render", wsR, 0)
  /\ lastThrew' = FALSE
  /\ UNCHANGED <<ws, isConnected, droneState, videoFrame, mounted,
                 lastSU, lastVF, malformedSeen, disconnected, dispVars,
                 handlers, panelSpeed, isTracking>>

NextController ==
  \/ ClickConnection
  \/ ClickFlight
  \/ \E d \in PanelMoveDirections : ClickMove(d)
  \/ \E d \in PanelRotateDirections : ClickRotate(d)
  \/ ClickFlip
  \/ \E v \in PanelSpeeds : handleSpeedChange(v)
  \/ handleToggleTracking
  \/ \E p \in 1..Len(posts), resp \in Responses : OnResponse(p, resp)
  \/ \E p \in 1..Len(posts) : OnFetchError(p)
  \/ Commit
  \/ \E s \in SocketIds : OnOpen(s)
  \/ \E s \in SocketIds : OnClose(s)

Spec == Init /\ [][NextController]_vars

\* ================================================================= claims
IsMessage(e, kind) == e.kind = "message" /\ Messages[e.msg].kind = kind

LiveSockets == {s \in SocketIds : sock[s] \in Live}

\* The connected channel was closed by disconnect() and opened again: a
\* socket is held, and every other socket ever created was open when an
\* explicit disconnect closed it.
Reopened ==
  /\ mounted
  /\ ws # 0
  /\ disconnected # {}
  /\ \A s \in SocketIds \ {ws} : sock[s] # "NONE" => s \in disconnected

\* C1: as long as only well-formed messages have been delivered, the
\* telemetry snapshot is exactly the data payload of the most recently
\* received state_update message (null before the first one): the snapshot
\* is replaced as a whole, never merged with an earlier one.
C1_SnapshotIsLatestPayload == ~malformedSeen => droneState = lastSU

C1_Witness ==
  /\ ~malformedSeen
  /\ IsMessage(lastEvent, "state_update")
  /\ lastEvent.msg = 2
  /\ droneState = JObj(<<Member("height", JNum(2))>>)

\* C2: as long as only well-formed messages have been delivered, the video
\* frame slot holds the data.frame of the most recently received video_frame
\* message and nothing of any earlier frame.
C2_FrameIsLatest == ~malformedSeen => videoFrame = lastVF

C2_Witness ==
  /\ ~malformedSeen
  /\ IsMessage(lastEvent, "video_frame")
  /\ lastEvent.msg = 4
  /\ videoFrame = JStr("f2")

\* C3: delivering a valid envelope whose type is neither state_update nor
\* video_frame changes neither the snapshot, nor the frame, nor the
\* connection state, and the handler does not throw.
C3_UnknownTypeIgnored ==
  [][IsMessage(lastEvent', "other") =>
       /\ droneState' = droneState
       /\ videoFrame' = videoFrame
       /\ isConnected' = isConnected
       /\ ~lastThrew']_vars

C3_Witness ==
  /\ IsMessage(lastEvent, "other")
  /\ droneState # JNull
  /\ videoFrame # JNull
  /\ isConnected

\* C4 (as claimed): delivering a malformed message (not JSON, a JSON value
\* without a type, or a recognised tag without data) leaves the snapshot,
\* the frame and the connection state as they were and the socket open, so
\* that later messages are still delivered.
C4_MalformedLeavesState ==
  [][IsMessage(lastEvent', "malformed") =>
       /\ droneState' = droneState
       /\ videoFrame' = videoFrame
       /\ isConnected' = isConnected
       /\ sock' = sock]_vars

\* C5 (as claimed): at most one socket created by the channel is live
\* (connecting or open) in any state.
C5_AtMostOneLiveSocket == Cardinality(LiveSockets) <= 1

\* C6 (as claimed): disconnect closes the held socket and drops the handle,
\* or does nothing when no socket is held; and once the component is torn
\* down no socket the channel created is still connecting or open.
C6_EverySocketReleased ==
  /\ [](~mounted => LiveSockets = {})
  /\ [][lastEvent'.kind = "disconnect" =>
          IF ws # 0
          THEN ws' = 0 /\ sock'[ws] \notin Live
          ELSE UNCHANGED chanVars]_vars

\* C7 (as claimed): isConnected starts false, changes only on a socket's
\* open or close event, and is true once the socket held after a reopen has
\* opened.
C7_ConnectedAfterReopen ==
  /\ [](lastEvent.kind = "init" => ~isConnected)
  /\ [](Reopened /\ sock[ws] = "OPEN" => isConnected)
  /\ [][isConnected' # isConnected => lastEvent'.kind \in {"open", "close"}]_vars

\* C8 (as claimed): when the channel has been closed and reopened and the
\* new connection has not delivered anything yet (the held socket is still
\* connecting), both slots are empty.
C8_NoResidualAfterReopen ==
  Reopened /\ sock[ws] = "CONNECTING" => droneState = JNull /\ videoFrame = JNull

\* Section 4.2 of the specification: the endpoint and the parameter names of
\* every operation.
EndpointOf(op) ==
  CASE op = "connect" -> "/connect"
    [] op = "disconnect" -> "/disconnect"
    [] op = "takeoff" -> "/takeoff"
    [] op = "land" -> "/land"
    [] op = "move" -> "/move"
    [] op = "rotate" -> "/rotate"
    [] op = "flip" -> "/flip"
    [] op = "setSpeed" -> "/speed"
    [] op = "toggleTracking" -> "/track_object"

ParamNames(op) ==
  CASE op = "move" -> <<"direction", "distance">>
    [] op = "rotate" -> <<"direction", "degrees">>
    [] op = "flip" -> <<"direction">>
    [] op = "setSpeed" -> <<"speed">>
    [] op = "toggleTracking" -> <<"enabled">>
    [] OTHER -> <<>>

GivenParams(c) ==
  JObj([i \in 1..Len(c.args) |-> Member(ParamNames(c.op)[i], c.args[i])])

MoveForward30Text ==
  <<LB, S("direction"), COLON, S("forward"), COMMA, S("distance"), COLON, N(30), RB>>

\* C9: every invocation of a command operation has issued exactly one POST,
\* to the operation's endpoint, whose body reads back as exactly the given
\* parameters (move("forward", 30) posts {direction:"forward", distance:30}
\* to /move); a call answered 2xx is resolved with the parsed response body,
\* a call answered non-2xx is rejected with "Command failed", and no request
\* is issued beyond the one per invocation.
C9_OnePostPerInvocation ==
  /\ Len(posts) = Len(calls)
  /\ \A i \in 1..Len(calls) :
       /\ i <= Len(posts)
       /\ posts[i].call = i
       /\ posts[i].method = "POST"
       /\ posts[i].endpoint = EndpointOf(calls[i].op)
       /\ JSONparse(posts[i].body) = [ok |-> TRUE, val |-> GivenParams(calls[i])]
       /\ (calls[i].op = "move" /\ calls[i].args = <<JStr("forward"), JNum(30)>>
             => posts[i].body = MoveForward30Text)
       /\ (posts[i].state = "inflight" => calls[i].status = "pending")
       /\ (posts[i].state = "answered" /\ posts[i].resp.ok
             => calls[i].status = "resolved" /\ calls[i].value = posts[i].resp.parsed)
       /\ (posts[i].state = "answered" /\ ~posts[i].resp.ok
             => calls[i].status = "rejected" /\ calls[i].value = JStr("Command failed"))

C9_Witness ==
  /\ Len(calls) = 2
  /\ calls[1].op = "move"
  /\ calls[1].args = <<JStr("forward"), JNum(30)>>
  /\ posts[1].state = "answered"
  /\ ~posts[1].resp.ok
  /\ calls[1].status = "rejected"
  /\ posts[2].state = "answered"
  /\ posts[2].resp.ok
  /\ calls[2].status = "resolved"

IsSetSpeedCall(c) == c.op = "setSpeed"

IsSpeedPost(p) == p.endpoint = "/speed"

\* C10: the POSTs to /speed are, in issuance order, one per setSpeed
\* invocation in invocation order, each carrying that invocation's value,
\* whatever the state (in flight, resolved, rejected) of the other calls and
\* whether or not the values repeat.
C10_SpeedPostsInOrder ==
  LET invoked == SelectSeq(calls, IsSetSpeedCall)
      issued == SelectSeq(posts, IsSpeedPost)
  IN /\ Len(issued) = Len(invoked)
     /\ \A i \in 1..Len(invoked) :
          /\ i <= Len(issued)
          /\ issued[i].body = <<LB, S("speed"), COLON, N(invoked[i].args[1].n), RB>>

C10_Witness ==
  /\ Len(calls) = 2
  /\ calls[1].op = "setSpeed"
  /\ calls[2].op = "setSpeed"
  /\ calls[1].args = calls[2].args
  /\ Len(posts) = 2
  /\ posts[1].state = "inflight"
  /\ posts[2].state = "inflight"
  /\ posts[1].body = posts[2].body

\* C12 (as claimed): in every state isConnected is true only if the socket
\* the channel holds is open, and the close event of a socket other than the
\* held one does not reset isConnected once the held socket has opened.
C12_ConnectedMeansHeldSocketOpen ==
  /\ [](mounted /\ isConnected => ws # 0 /\ sock[ws] = "OPEN")
  /\ [][(/\ mounted
         /\ lastEvent'.kind = "close"
         /\ lastEvent'.sock # ws
         /\ ws # 0
         /\ sock[ws] = "OPEN"
         /\ isConnected)
        => isConnected']_vars

\* C11 (as claimed): every command the backend rejected with a non-success
\* status has raised a failure notification, whichever of the nine commands
\* it was.
C11_EveryRejectionNotified ==
  \A c \in 1..Len(handlers) :
    (calls[c].status = "rejected" /\ posts[c].state = "answered")
      => handlers[c].toast.variant = "destructive"

AwaitedBy(c, handler, op) ==
  /\ handlers[c].handler = handler
  /\ calls[c].op = op
  /\ posts[c].endpoint = EndpointOf(op)

\* C13: a socket is created only in the step in which a POST /connect awaited
\* by handleConnect resolves successfully, and the channel's disconnect runs
\* only in the step in which a POST /disconnect awaited by handleDisconnect
\* resolves successfully, each with its success notification; when either
\* REST call fails, the channel (sockets, handle, isConnected) is left as it
\* was and the failure notification is raised instead.
C13_RestBeforeChannel ==
  [][/\ (Created' # Created =>
           \E c \in 1..Len(handlers) :
             /\ AwaitedBy(c, "handleConnect", "connect")
             /\ calls[c].status = "pending"
             /\ calls'[c].status = "resolved"
             /\ posts'[c].resp.ok
             /\ handlers'[c].toast.title = "Connected")
     /\ (lastEvent'.kind = "disconnect" =>
           \E c \in 1..Len(handlers) :
             /\ AwaitedBy(c, "handleDisconnect", "disconnect")
             /\ calls[c].status = "pending"
             /\ calls'[c].status = "resolved"
             /\ posts'[c].resp.ok
             /\ handlers'[c].toast.title = "Disconnected")
     /\ \A c \in 1..Len(handlers) :
          (/\ handlers[c].handler \in {"handleConnect", "handleDisconnect"}
           /\ calls[c].status = "pending"
           /\ calls'[c].status = "rejected")
          => /\ UNCHANGED chanVars
             /\ handlers'[c].toast.variant = "destructive"
             /\ handlers'[c].toast.title =
                  IF handlers[c].handler = "handleConnect"
                  THEN "Connection Failed" ELSE "Disconnection Failed"]_vars

C13_Witness ==
  /\ Len(calls) = 3
  /\ calls[1].op = "connect"
  /\ calls[1].status = "rejected"
  /\ handlers[1].toast.title = "Connection Failed"
  /\ calls[2].op = "connect"
  /\ calls[2].status = "resolved"
  /\ handlers[2].toast.title = "Connected"
  /\ Created = {1}
  /\ calls[3].op = "disconnect"
  /\ calls[3].status = "resolved"
  /\ handlers[3].toast.title = "Disconnected"
  /\ disconnected = {1}

FlightOps == {"land", "move", "rotate", "flip", "setSpeed", "toggleTracking"}

\* C14: a flight command (land, move, rotate, flip, setSpeed,
\* toggleTracking) is dispatched from the panel only while the isConnected
\* the panel was rendered with is true, and takeoff is never dispatched.
C14_FlightCommandsNeedConnected ==
  /\ [](\A c \in 1..Len(calls) : calls[c].op # "takeoff")
  /\ [][(Len(calls') > Len(calls) /\ calls'[Len(calls')].op \in FlightOps)
          => panelConnected]_vars

C14_Witness ==
  /\ Len(calls) = 3
  /\ calls[1].op = "connect"
  /\ calls[2].op = "land"
  /\ calls[3].op = "setSpeed"
  /\ panelConnected

====
